---- MODULE Spec2Model ----
(***************************************************************************)
(* Matchmaking service of naomijub/MHTH (crates/matchmaking).              *)
(*                                                                         *)
(* The model covers the ingress handler MatchmakingServer::join_queue, the *)
(* periodic MatchmakingWorker (hosted_matches, create_match, form_match,   *)
(* remove_matched_players, start_matches), the match builder Match::host,  *)
(* the regions registry and the parts of the Redis store they use.  Every  *)
(* store call of a handler is one step, so that concurrent JoinQueue calls *)
(* and the worker interleave at the await points of the code.              *)
(***************************************************************************)
EXTENDS Integers, Sequences, FiniteSets, TLC

\* ------------------------------------------------------------------------
\* Bounds of the model
\* ------------------------------------------------------------------------
\* number of JoinQueue calls issued in one behaviour
MaxCalls == 2
\* number of runs of the worker in one behaviour
MaxTicks == 2
\* the clock (seconds since GAME_START) runs from 0 to MaxTime
MaxTime == 1
\* number of player records whose TTL elapses in one behaviour
MaxExpiries == 1

\* ------------------------------------------------------------------------
\* Program constants
\* ------------------------------------------------------------------------
\* Match::MAX_PLAYERS
MAX_PLAYERS == 4
\* the size at which hosted_matches closes a match
FULL_MATCH == 4
\* rpc::server::TWO_HOURS, the seconds form_match gives to match:<id>
TWO_HOURS == 720

\* ------------------------------------------------------------------------
\* Values
\* ------------------------------------------------------------------------
\* player ids (UUIDs, in their canonical text form)
Uuids == {"p1", "p2", "p3", "p4", "p5"}
\* the regions players can name
Regions == {"CAN", "US"}
\* the values of RegionSet an operator stores
RegionLists == {<< >>, <<"CAN", "US">>}
\* JoinMode of the protocol
JoinModes == {"JoinOrCreateRoom", "JoinRoom", "CreateRoom"}
\* party_member_id lists a request can carry
PartyLists ==
  {<<"p2">>, <<"p2", "p2", "p2">>, <<"p2", "p2", "p2", "p2">>}
\* ratings the skill oracle answers with (integers stand for the f64 fields)
SkillRatings == {[rating |-> 25, loadout_modifier |-> 1, uncertainty |-> 8]}

\* the Player message of a JoinQueue request: p1 asks to host with a party
\* of p2 (named once, three times or four times), p2 asks to join from
\* either region, with or without a party of its own
Players ==
  [player_id : {"p1"}, region : {"CAN"}, ping : {20}, difficulty : {0},
   join_mode : {"CreateRoom"}, party_mode : {0},
   party_member_id : PartyLists]
  \cup
  [player_id : {"p2"}, region : Regions, ping : {20}, difficulty : {0},
   join_mode : {"JoinRoom"}, party_mode : {0},
   party_member_id : {<< >>, <<"p1">>}]

\* absent value of a key (GET answers nil), also the empty byte string
Nil == << >>

\* ------------------------------------------------------------------------
\* rpc/mod.rs, rpc/player_impl.rs: QueuedPlayer, Match, keys and the codec
\* ------------------------------------------------------------------------
\* impl From<(Uuid, Player, MhthRating)> for QueuedPlayer
QueuedPlayerFrom(player_id, player, skillrating) ==
  [player_id |-> player_id,
   skillrating |-> skillrating,
   region |-> player.region,
   ping |-> player.ping,
   difficulty |-> player.difficulty,
   join_mode |-> player.join_mode,
   party_mode |-> player.party_mode,
   party_ids |-> player.party_member_id,
   join_time |-> 0]

\* QueuedPlayer::joined_at
joined_at(self, join_time) == [self EXCEPT !.join_time = join_time]

\* bitcode::encode::<QueuedPlayer>: the fields in declaration order
EncodePlayer(p) ==
  <<p.player_id, p.skillrating, p.region, p.ping, p.difficulty,
    p.join_mode, p.party_mode, p.party_ids, p.join_time>>

\* bitcode::decode::<QueuedPlayer>
DecodePlayer(b) ==
  [player_id |-> b[1], skillrating |-> b[2], region |-> b[3], ping |-> b[4],
   difficulty |-> b[5], join_mode |-> b[6], party_mode |-> b[7],
   party_ids |-> b[8], join_time |-> b[9]]

\* bitcode::decode::<QueuedPlayer>(..) is Ok: the bytes are the nine fields
\* of a QueuedPlayer
IsPlayerEncoding(b) == Len(b) = 9

\* bitcode::encode::<Match>: id, players, region, host_id
EncodeMatch(m) ==
  <<m.id, [i \in 1..Len(m.players) |-> EncodePlayer(m.players[i])],
    m.region, m.host_id>>

\* bitcode::decode::<Match>
DecodeMatch(b) ==
  [id |-> b[1],
   players |-> [i \in 1..Len(b[2]) |-> DecodePlayer(b[2][i])],
   region |-> b[3],
   host_id |-> b[4]]

\* bitcode::decode::<Match>(..) is Ok: the bytes are the four fields of a
\* Match
IsMatchEncoding(b) == Len(b) = 4

\* player_queue_key: "queue_player:<party_mode>:<region>"
player_queue_key(data) == <<data.party_mode, data.region>>

\* create_match_queue_key: "queue_create_match:<region>"
create_match_queue_key(region) == region

\* match_data_key: "match:<id>"
match_data_key(new_match) == new_match.id

\* texts Uuid::parse_str accepts besides the canonical lower-case form: the
\* upper-case spelling of p1 and of p2
UpperCaseUuids == {"P1", "P2"}

\* Uuid::to_string: the canonical text of the id a text spells
Canonical(s) == IF s = "P1" THEN "p1" ELSE IF s = "P2" THEN "p2" ELSE s

\* Uuid::from_str / Uuid::parse_str: ok is FALSE for the parse error
ParseUuid(s) ==
  [id |-> Canonical(s), ok |-> s \in Uuids \cup UpperCaseUuids]

\* bitcode::encode::<[String]>: the length, then the elements
EncodeRegions(regions) == <<Len(regions)>> \o regions

\* bitcode::decode::<Vec<String>>
DecodeRegions(b) == SubSeq(b, 2, b[1] + 1)

\* bitcode::decode::<Vec<String>>(..) is Ok: the bytes are a length and that
\* many elements
IsRegionsEncoding(b) == Len(b) >= 1 /\ b[1] = Len(b) - 1

\* ------------------------------------------------------------------------
\* The Redis commands the program uses
\* ------------------------------------------------------------------------
\* ZADD key score member on the members of one key: a member already in the
\* set keeps one entry and takes the new score
ZAdd(zset, key, member, score) ==
  {e \in zset : ~(e.key = key /\ e.member = member)}
    \cup {[key |-> key, member |-> member, score |-> score]}

ZRemKeeps(zset, key, member) == zset

\* ZREM key member
ZRem(zset, key, member) ==
  {e \in zset : ~(e.key = key /\ e.member = member)}

RECURSIVE SortNewestFirst(_)
SortNewestFirst(entries) ==
  IF entries = {} THEN << >>
  ELSE LET first == CHOOSE e \in entries : \A o \in entries : e.score >= o.score
       IN  <<first.member>> \o SortNewestFirst(entries \ {first})

RECURSIVE SortByScore(_)
\* the entries of a set in ascending score; the store orders equal scores by
\* the bytes of the member, a fixed order the model picks with CHOOSE
SortByScore(entries) ==
  IF entries = {} THEN << >>
  ELSE LET first == CHOOSE e \in entries : \A o \in entries : e.score <= o.score
       IN  <<first.member>> \o SortByScore(entries \ {first})

\* ZRANGE key 0 -1
ZRange(zset, key) == SortByScore({e \in zset : e.key = key})

\* SETEX key seconds value: the entry keeps the time-to-live it was given
SetEx(kv, key, value, seconds) ==
  {e \in kv : e.key # key}
    \cup {[key |-> key, value |-> value, ttl |-> seconds]}

DelKeyKeeps(kv, key) == kv

\* DEL key
DelKey(kv, key) == {e \in kv : e.key # key}

\* the name of the sorted set of closed matches
CLOSED_MATCHES == "matches:closed"

\* ------------------------------------------------------------------------
\* rpc/worker/can_match.rs: the match builder
\* ------------------------------------------------------------------------
HostPartyCapacity(player, party, id) ==
  IF player.join_mode = "JoinRoom" THEN [err |-> "JoinOnlyMode"]
  ELSE IF Len(party) > MAX_PLAYERS THEN [err |-> "OversidedParty"]
  ELSE [err |-> "",
        match |-> [host_id |-> player.player_id,
                   id |-> id,
                   region |-> player.region,
                   players |-> Append(party, player)]]

HostLeads(player, party, id) ==
  IF player.join_mode = "JoinRoom" THEN [err |-> "JoinOnlyMode"]
  ELSE IF Len(party) + 1 > MAX_PLAYERS THEN [err |-> "OversidedParty"]
  ELSE [err |-> "",
        match |-> [host_id |-> player.player_id,
                   id |-> id,
                   region |-> player.region,
                   players |-> <<player>> \o party]]

\* Match::host; id is the fresh Uuid::new_v4()
Host(player, party, id) ==
  IF player.join_mode = "JoinRoom" THEN [err |-> "JoinOnlyMode"]
  ELSE IF Len(party) + 1 > MAX_PLAYERS THEN [err |-> "OversidedParty"]
  ELSE [err |-> "",
        match |-> [host_id |-> player.player_id,
                   id |-> id,
                   region |-> player.region,
                   players |-> Append(party, player)]]

\* i64 division, which truncates toward zero
TruncDiv(a, b) == IF a >= 0 THEN a \div b ELSE -((-a) \div b)

at_least_minutes(minutes, joined, time_since) ==
  TruncDiv(time_since - joined, 60) >= minutes

less_than_minutes(minutes, joined, time_since) ==
  TruncDiv(time_since - joined, 60) < minutes

\* more_than_minutes; time_since is the clock it reads (seconds since
\* GAME_START, a lookup that cannot fail as GAME_START is a valid date)
more_than_minutes(minutes, joined, time_since) ==
  TruncDiv(time_since - joined, 60) > minutes

RECURSIVE SumPing(_)
\* players.iter().map(|p| p.ping).sum()
SumPing(players) ==
  IF players = << >> THEN 0
  ELSE Head(players).ping + SumPing(Tail(players))

RECURSIVE SumSkill(_)
\* players.iter().map(|p| p.skillrating.rating + p.skillrating.loadout_modifier).sum()
SumSkill(players) ==
  IF players = << >> THEN 0
  ELSE Head(players).skillrating.rating
         + Head(players).skillrating.loadout_modifier
         + SumSkill(Tail(players))

is_player_fit_any_region(self, player, time_since) ==
  LET current_players_count == Len(self.players)
      sum_ping == SumPing(self.players)
      sum_skill == SumSkill(self.players)
      player_skill == player.skillrating.rating
                        + player.skillrating.loadout_modifier
  IN  IF \/ player.join_mode = "CreateRoom"
         \/ current_players_count >= MAX_PLAYERS
      THEN [fit |-> FALSE, deviation |-> "Worst"]
      ELSE IF player.ping < 50 THEN [fit |-> TRUE, deviation |-> "Excellent"]
      ELSE IF player.ping < 100 THEN [fit |-> TRUE, deviation |-> "Good"]
      ELSE IF /\ player.ping < 150
              /\ sum_ping + 25 * current_players_count
                   > player.ping * current_players_count
           THEN [fit |-> TRUE, deviation |-> "Disadvantage"]
      ELSE IF \/ /\ player.ping < 150
                 /\ more_than_minutes(1, player.join_time, time_since)
              \/ 50 * (player_skill * current_players_count - sum_skill)
                   > (150 - player.ping) * sum_skill
           THEN [fit |-> TRUE, deviation |-> "Poor"]
      ELSE IF player.ping < 150
           THEN [fit |-> FALSE, deviation |-> "Disadvantage"]
      ELSE IF /\ player.ping >= 150
              /\ player.ping < 300
              /\ more_than_minutes(3, player.join_time, time_since)
           THEN [fit |-> TRUE, deviation |-> "Poor"]
      ELSE [fit |-> FALSE, deviation |-> "Worst"]

\* Match::is_player_fit, for a match with players of positive skill.  The
\* f64 comparisons are made on integers, both sides multiplied by the number
\* of players and by the sum of their skills:
\*   average_ping + 25 > ping         iff  sum_ping + 25 n > ping n
\*   ping + percent_skill > 150       iff  50 (skill n - sum_skill)
\*                                           > (150 - ping) sum_skill
is_player_fit(self, player, time_since) ==
  LET current_players_count == Len(self.players)
      sum_ping == SumPing(self.players)
      sum_skill == SumSkill(self.players)
      player_skill == player.skillrating.rating
                        + player.skillrating.loadout_modifier
  IN  IF \/ player.join_mode = "CreateRoom"
         \/ current_players_count >= MAX_PLAYERS
         \/ self.region # player.region
      THEN [fit |-> FALSE, deviation |-> "Worst"]
      ELSE IF player.ping < 50 THEN [fit |-> TRUE, deviation |-> "Excellent"]
      ELSE IF player.ping < 100 THEN [fit |-> TRUE, deviation |-> "Good"]
      ELSE IF /\ player.ping < 150
              /\ sum_ping + 25 * current_players_count
                   > player.ping * current_players_count
           THEN [fit |-> TRUE, deviation |-> "Disadvantage"]
      ELSE IF \/ /\ player.ping < 150
                 /\ more_than_minutes(1, player.join_time, time_since)
              \/ 50 * (player_skill * current_players_count - sum_skill)
                   > (150 - player.ping) * sum_skill
           THEN [fit |-> TRUE, deviation |-> "Poor"]
      ELSE IF player.ping < 150
           THEN [fit |-> FALSE, deviation |-> "Disadvantage"]
      ELSE IF /\ player.ping >= 150
              /\ player.ping < 300
              /\ more_than_minutes(3, player.join_time, time_since)
           THEN [fit |-> TRUE, deviation |-> "Poor"]
      ELSE [fit |-> FALSE, deviation |-> "Worst"]

\* ------------------------------------------------------------------------
\* State
\* ------------------------------------------------------------------------
VARIABLES
  records,             \* store: <player_id> -> encoded QueuedPlayer (TTL 600 s)
  queue_player,        \* store: the sorted sets queue_player:<party_mode>:<region>
  queue_create_match,  \* store: the sorted sets queue_create_match:<region>
  match_data,          \* store: match:<id> -> encoded Match (with TTL)
  closed_matches,      \* store: the sorted set matches:closed
  regions_key,         \* store: match:regions
  open_matches,        \* MatchmakingWorker.open_matches
  w,                   \* the worker task: its position and its locals
  calls,               \* the JoinQueue calls: position and locals of each
  now,                 \* seconds since GAME_START
  next_id,             \* the next fresh match id (Uuid::new_v4)
  ticks,               \* finished runs of the worker
  started,             \* the start-match notifications issued, in order
  formed,              \* history: the matches create_match has pushed, and
                       \* whether form_match stored them under match:<id>
  promoted,            \* history: the matches inserted into matches:closed
  seated,              \* history: ids seated since their record was last written
  ttl_expired,         \* history: the number of player records that expired
  probe                \* a direct call of a pure function: input and result

vars ==
  <<records, queue_player, queue_create_match, match_data, closed_matches,
    regions_key, open_matches, w, calls, now, next_id, ticks, started,
    formed, promoted, seated, ttl_expired, probe>>

CallIds == 1..MaxCalls

\* request.extensions().get::<auth::UserId>() of a request without one
NoUserId == [player_id |-> "", present |-> FALSE]

\* a call slot before its request arrives; status is the response ("" while
\* there is none), failed the store call of the handler that answered Err,
\* request what the caller sent and what the skill oracle answered
IdleCall ==
  [time_since |-> 0, pc |-> "idle", step |-> 0, encoded_player |-> Nil,
   wrote |-> FALSE, disturbed |-> FALSE, same_at_return |-> FALSE,
   status |-> "", failed |-> "",
   request |-> [player_id |-> "", user_id |-> NoUserId, skill_ok |-> FALSE]]

\* no pure function has been called directly
NoProbe == [fn |-> "none"]

\* the worker between two runs; no_regions tells, during a run, that
\* hosted_matches found the RegionSet absent or empty, result what the last
\* call of create_match returned ("" before the first one), outcomes the
\* hosts create_match was called for during the run, in order, each with
\* what the call returned
IdleWorker ==
  [regions |-> << >>, party |-> << >>, pc |-> "idle", hosts |-> << >>,
   friends |-> << >>, evict |-> << >>, index |-> 0, kept |-> << >>,
   closed |-> << >>, count |-> 0, no_regions |-> FALSE, result |-> "",
   outcomes |-> << >>]

\* MatchmakingWorker::new over an empty store
Init ==
  /\ records = [id \in Uuids |-> Nil]
  /\ queue_player = {}
  /\ queue_create_match = {}
  /\ match_data = {}
  /\ closed_matches = {}
  /\ regions_key = [value |-> Nil, present |-> FALSE]
  /\ open_matches = << >>
  /\ w = IdleWorker
  /\ calls = [c \in CallIds |-> IdleCall]
  /\ now = 0
  /\ next_id = 1
  /\ ticks = 0
  /\ started = << >>
  /\ formed = << >>
  /\ promoted = {}
  /\ seated = {}
  /\ ttl_expired = 0
  /\ probe = NoProbe

\* ------------------------------------------------------------------------
\* regions/mod.rs
\* ------------------------------------------------------------------------
\* set_regions: SET match:regions <encoded list>
set_regions(regions) ==
  /\ regions_key' = [value |-> EncodeRegions(regions), present |-> TRUE]
  /\ UNCHANGED <<probe, promoted, records, queue_player, queue_create_match, match_data,
                 closed_matches, open_matches, w, calls, now, next_id, ticks,
                 started, formed, seated, ttl_expired>>

\* ------------------------------------------------------------------------
\* The environment: the clock and the expiry of player records
\* ------------------------------------------------------------------------
AdvanceTime ==
  /\ now < MaxTime
  /\ now' = now + 1
  /\ UNCHANGED <<probe, promoted, records, queue_player, queue_create_match, match_data,
                 closed_matches, regions_key, open_matches, w, calls, next_id,
                 ticks, started, formed, seated, ttl_expired>>

\* the store drops <player_id> when its TTL (TEN_MINUTES) has elapsed
ExpirePlayer(id) ==
  /\ records[id] # Nil
  /\ ttl_expired < MaxExpiries
  /\ records' = [records EXCEPT ![id] = Nil]
  /\ ttl_expired' = ttl_expired + 1
  /\ calls' = [c \in CallIds |->
                 IF /\ calls[c].pc \notin {"idle", "done"}
                    /\ calls[c].wrote
                    /\ calls[c].encoded_player[1] = id
                 THEN [calls[c] EXCEPT !.disturbed = TRUE]
                 ELSE calls[c]]
  /\ UNCHANGED <<probe, promoted, queue_player, queue_create_match, match_data, closed_matches,
                 regions_key, open_matches, w, now, next_id, ticks, started,
                 formed, seated>>

\* ------------------------------------------------------------------------
\* rpc/server/mod.rs: MatchmakingServer::join_queue
\* ------------------------------------------------------------------------
JoinOrderQueueFirst == <<"zadd_player", "zadd_create", "set_ex">>

JoinOrderNoRecord == <<"zadd_player", "zadd_create">>

\* the store calls of join_queue in program order
JoinOrder == <<"set_ex", "zadd_player", "zadd_create">>

StepAppliesAlways(op, data) == TRUE

\* the insertion into the create-match queue is made for CreateRoom only
StepApplies(op, data) ==
  op # "zadd_create" \/ data.join_mode = "CreateRoom"

\* the next store call after the k-th one, 0 when the call returns
NextStep(k, data) ==
  LET later == {j \in (k + 1)..Len(JoinOrder) : StepApplies(JoinOrder[j], data)}
  IN  IF later = {} THEN 0
      ELSE CHOOSE j \in later : \A o \in later : j <= o

\* the call after its store call at position call.step; when that was the
\* last one the call returns Ok("waiting in queue")
AfterStoreCall(call, recs) ==
  LET data == DecodePlayer(call.encoded_player)
      n == NextStep(call.step, data)
  IN  IF n = 0
      THEN [call EXCEPT !.pc = "done", !.step = 0, !.status = "Ok",
                        !.same_at_return =
                           (recs[data.player_id] = call.encoded_player)]
      ELSE [call EXCEPT !.pc = JoinOrder[n], !.step = n]

\* the UserId check_auth attaches for a token of the player the body names
Authenticated(player) ==
  [player_id |-> Canonical(player.player_id), present |-> TRUE]

\* the answer of the skill oracle: Ok(rating), and Err
Rated(skillrating) == [rating |-> skillrating, ok |-> TRUE]
NotRated == [rating |-> [rating |-> 0, loadout_modifier |-> 0,
                         uncertainty |-> 0],
             ok |-> FALSE]

RejectedWithoutCaller(player, user_id, skill_result) ==
  LET player_id == ParseUuid(player.player_id)
  IN  IF ~player_id.ok THEN "InvalidArgument"
      ELSE IF ~skill_result.ok THEN "Internal" ELSE ""

\* the error join_queue returns before it reaches the Redis block, "" when
\* there is none: the parse of player_id, the comparison of the attached
\* UserId with the canonical text of the id, the answer of the skill oracle
RejectedWith(player, user_id, skill_result) ==
  LET player_id == ParseUuid(player.player_id)
  IN  IF ~player_id.ok THEN "InvalidArgument"
      ELSE IF ~user_id.present \/ user_id.player_id # player_id.id
           THEN "Unauthenticated"
           ELSE IF ~skill_result.ok THEN "Internal" ELSE ""

\* join_queue up to the Redis block: the caller is checked, the skill oracle
\* answers, join_time is stamped and the player is encoded; a rejected
\* request is answered at once
JoinQueueBegin(c, player, user_id, skill_result) ==
  /\ calls[c].pc = "idle"
  /\ \A d \in CallIds : d < c => calls[d].pc # "idle"
  /\ LET player_id == ParseUuid(player.player_id)
         time_since == now
         data == joined_at(QueuedPlayerFrom(player_id.id, player,
                                            skill_result.rating),
                           time_since)
         first == NextStep(0, data)
         request == [player_id |-> player.player_id, user_id |-> user_id,
                     skill_ok |-> skill_result.ok]
         rejected == RejectedWith(player, user_id, skill_result)
     IN  calls' = [calls EXCEPT ![c] =
                     IF rejected # ""
                     THEN [IdleCall EXCEPT !.pc = "done",
                                           !.status = rejected,
                                           !.request = request]
                     ELSE [IdleCall EXCEPT !.pc = JoinOrder[first],
                                           !.step = first,
                                           !.encoded_player = EncodePlayer(data),
                                           !.time_since = time_since,
                                           !.request = request]]
  /\ UNCHANGED <<probe, promoted, records, queue_player, queue_create_match, match_data,
                 closed_matches, regions_key, open_matches, w, now, next_id,
                 ticks, started, formed, seated, ttl_expired>>

AfterStoreErrorSurfaced(call, recs) ==
  [call EXCEPT !.pc = "done", !.step = 0, !.status = "Internal",
               !.failed = call.pc]

\* a store call of join_queue answered Err and the handler returns: the error
\* is surfaced as Internal, except for the create-match insertion, whose
\* error is logged and dropped
AfterStoreError(call, recs) ==
  IF call.pc = "zadd_create"
  THEN [AfterStoreCall(call, recs) EXCEPT !.failed = call.pc]
  ELSE [call EXCEPT !.pc = "done", !.step = 0, !.status = "Internal",
                    !.failed = call.pc]

\* conn.set_ex(player_id, &encoded_player, TEN_MINUTES); ok is the answer of
\* the store
JoinQueueSetEx(c, ok) ==
  /\ calls[c].pc = "set_ex"
  /\ LET enc == calls[c].encoded_player
         id == DecodePlayer(enc).player_id
         recs == [records EXCEPT ![id] = enc]
     IN  IF ok
         THEN /\ records' = recs
              /\ calls' = [d \in CallIds |->
                   IF d = c
                   THEN AfterStoreCall([calls[c] EXCEPT !.wrote = TRUE], recs)
                   ELSE IF /\ calls[d].pc \notin {"idle", "done"}
                           /\ calls[d].wrote
                           /\ calls[d].encoded_player[1] = id
                        THEN [calls[d] EXCEPT !.disturbed = TRUE]
                        ELSE calls[d]]
              /\ seated' = seated \ {id}
         ELSE /\ calls' = [calls EXCEPT ![c] = AfterStoreError(calls[c], records)]
              /\ UNCHANGED <<records, seated>>
  /\ UNCHANGED <<probe, promoted, queue_player, queue_create_match, match_data, closed_matches,
                 regions_key, open_matches, w, now, next_id, ticks, started,
                 formed, ttl_expired>>

\* conn.zadd(player_queue_key(&data), &encoded_player, time_since)
JoinQueueZaddPlayer(c, ok) ==
  /\ calls[c].pc = "zadd_player"
  /\ LET enc == calls[c].encoded_player
         data == DecodePlayer(enc)
     IN  IF ok
         THEN /\ queue_player' = ZAdd(queue_player, player_queue_key(data), enc,
                                      calls[c].time_since)
              /\ calls' = [calls EXCEPT ![c] = AfterStoreCall(calls[c], records)]
         ELSE /\ calls' = [calls EXCEPT ![c] = AfterStoreError(calls[c], records)]
              /\ UNCHANGED queue_player
  /\ UNCHANGED <<probe, promoted, records, queue_create_match, match_data, closed_matches,
                 regions_key, open_matches, w, now, next_id, ticks, started,
                 formed, seated, ttl_expired>>

\* conn.zadd(create_match_queue_key(&data.region), &encoded_player, time_since)
JoinQueueZaddCreate(c, ok) ==
  /\ calls[c].pc = "zadd_create"
  /\ LET enc == calls[c].encoded_player
         data == DecodePlayer(enc)
     IN  IF ok
         THEN /\ queue_create_match' =
                   ZAdd(queue_create_match, create_match_queue_key(data.region),
                        enc, calls[c].time_since)
              /\ calls' = [calls EXCEPT ![c] = AfterStoreCall(calls[c], records)]
         ELSE /\ calls' = [calls EXCEPT ![c] = AfterStoreError(calls[c], records)]
              /\ UNCHANGED queue_create_match
  /\ UNCHANGED <<probe, promoted, records, queue_player, match_data, closed_matches,
                 regions_key, open_matches, w, now, next_id, ticks, started,
                 formed, seated, ttl_expired>>

\* ------------------------------------------------------------------------
\* rpc/worker: MatchmakingWorker
\* ------------------------------------------------------------------------
RECURSIVE PlayersOf(_)
\* open_matches.iter().flat_map(|mtc| mtc.players.iter())
PlayersOf(matches) ==
  IF matches = << >> THEN << >>
  ELSE Head(matches).players \o PlayersOf(Tail(matches))

RECURSIVE HostsOf(_)
HostsOf(matches) ==
  IF matches = << >> THEN << >>
  ELSE <<Head(matches).players[Len(Head(matches).players)]>>
         \o HostsOf(Tail(matches))

EvictHostsOnly(matches) ==
  LET ps == HostsOf(matches)
  IN  [i \in 1..Len(ps) |->
         [key |-> player_queue_key(ps[i]), member |-> EncodePlayer(ps[i])]]

\* the (key, member) pairs remove_matched_players removes, in order
EvictList(matches) ==
  LET ps == PlayersOf(matches)
  IN  [i \in 1..Len(ps) |->
         [key |-> player_queue_key(ps[i]), member |-> EncodePlayer(ps[i])]]

\* hosted_matches after the loop over the regions: without open matches
\* neither remove_matched_players nor the promotion loop calls the store
AfterRegions(ww, open) ==
  IF open = << >>
  THEN [ww EXCEPT !.pc = "start_zrange"]
  ELSE [ww EXCEPT !.pc = "evict", !.evict = EvictList(open)]

\* the loops of hosted_matches over regions and hosts: the place the worker
\* continues at when ww.hosts are the hosts still to process
EnterHosts(ww, open) ==
  IF ww.hosts # << >>
  THEN [ww EXCEPT !.pc = "create",
                  !.friends = Head(ww.hosts).party_ids,
                  !.party = << >>]
  ELSE IF ww.regions # << >>
       THEN [ww EXCEPT !.pc = "zrange", !.friends = << >>, !.party = << >>]
       ELSE AfterRegions([ww EXCEPT !.friends = << >>, !.party = << >>], open)

NextHostEndsPhase(ww, open) ==
  LET after == [ww EXCEPT !.hosts = Tail(ww.hosts),
                          !.outcomes = Append(ww.outcomes,
                                              <<Head(ww.hosts).player_id,
                                                ww.result>>)]
  IN  IF ww.result \in {"Ok(true)", "Ok(false)"}
      THEN EnterHosts(after, open)
      ELSE AfterRegions([after EXCEPT !.hosts = << >>, !.regions = << >>,
                                      !.friends = << >>, !.party = << >>],
                        open)

\* create_match has returned for the current host
NextHost(ww, open) ==
  EnterHosts([ww EXCEPT !.hosts = Tail(ww.hosts),
                        !.outcomes = Append(ww.outcomes,
                                            <<Head(ww.hosts).player_id,
                                              ww.result>>)],
             open)

\* run(): hosted_matches() or start_matches() answered Err and .unwrap()
\* panics; the task the worker loop runs in ends and no run follows
Panicked(ww) == [ww EXCEPT !.pc = "panicked"]

\* hosted_matches: conn.get(REGIONS_KEY) and the decoding of the list; ok is
\* the answer of the store. Both errors leave hosted_matches through `?`
HostedMatchesGetRegions(ok) ==
  /\ w.pc = "idle"
  /\ ticks < MaxTicks
  /\ w' = IF ~ok
          THEN Panicked(w)
          ELSE IF ~regions_key.present
          THEN [w EXCEPT !.pc = "start_zrange", !.no_regions = TRUE]
          ELSE IF ~IsRegionsEncoding(regions_key.value)
          THEN Panicked(w)
          ELSE LET regions == DecodeRegions(regions_key.value)
               IN  EnterHosts([w EXCEPT !.regions = regions,
                                        !.hosts = << >>,
                                        !.no_regions = (regions = << >>)],
                              open_matches)
  /\ UNCHANGED <<probe, promoted, records, queue_player, queue_create_match, match_data,
                 closed_matches, regions_key, open_matches, calls, now,
                 next_id, ticks, started, formed, seated, ttl_expired>>

\* hosted_matches: conn.zrange(&region_key, 0, -1) for the next region and
\* the filter_map that keeps the entries that decode; an error is logged and
\* the loop goes on with the next region
HostedMatchesZRange(ok) ==
  /\ w.pc = "zrange"
  /\ LET region_key == create_match_queue_key(Head(w.regions))
         host_players == IF ok
                         THEN SelectSeq(ZRange(queue_create_match, region_key),
                                        IsPlayerEncoding)
                         ELSE << >>
         decoded == [i \in 1..Len(host_players) |->
                       DecodePlayer(host_players[i])]
     IN  w' = EnterHosts([w EXCEPT !.regions = Tail(w.regions),
                                   !.hosts = decoded],
                         open_matches)
  /\ UNCHANGED <<probe, promoted, records, queue_player, queue_create_match, match_data,
                 closed_matches, regions_key, open_matches, calls, now,
                 next_id, ticks, started, formed, seated, ttl_expired>>

\* create_match: one round of the loop over player.party_ids; a friend id
\* that does not parse, an error of conn.get(friend_id) and a record that
\* does not decode end create_match with Err, which hosted_matches logs
CreateMatchGetFriend(ok) ==
  /\ w.pc = "create"
  /\ Head(w.hosts).join_mode = "CreateRoom"
  /\ w.friends # << >>
  /\ LET friend_id == ParseUuid(Head(w.friends))
     IN  w' = IF ~friend_id.ok
              THEN NextHost([w EXCEPT !.result = "InvalidFriendId"],
                            open_matches)
              ELSE IF ~ok
              THEN NextHost([w EXCEPT !.result = "Redis"], open_matches)
              ELSE IF records[friend_id.id] = Nil
                   THEN [w EXCEPT !.friends = Tail(w.friends)]
              ELSE IF ~IsPlayerEncoding(records[friend_id.id])
                   THEN NextHost([w EXCEPT !.result = "BitcodeDeser"],
                                 open_matches)
                   ELSE [w EXCEPT !.friends = Tail(w.friends),
                                  !.party = Append(w.party,
                                              DecodePlayer(records[friend_id.id]))]
  /\ UNCHANGED <<probe, promoted, records, queue_player, queue_create_match, match_data,
                 closed_matches, regions_key, open_matches, calls, now,
                 next_id, ticks, started, formed, seated, ttl_expired>>

\* create_match: the join-mode check, and after the loop Match::host, the
\* push to open_matches and form_match (SETEX match:<id>); an error of
\* form_match is logged and create_match answers Ok(false), the match stays
\* in open_matches
CreateMatchForm(ok) ==
  /\ w.pc = "create"
  /\ Head(w.hosts).join_mode # "CreateRoom" \/ w.friends = << >>
  /\ LET player == Head(w.hosts)
         hosted == Host(player, w.party, next_id)
     IN  IF player.join_mode # "CreateRoom" \/ hosted.err # ""
         THEN /\ w' = NextHost([w EXCEPT !.result =
                                   IF player.join_mode # "CreateRoom"
                                   THEN "Ok(false)" ELSE hosted.err],
                               open_matches)
              /\ UNCHANGED <<open_matches, match_data, next_id, formed, seated>>
         ELSE /\ open_matches' = Append(open_matches, hosted.match)
              /\ match_data' =
                   IF ok
                   THEN SetEx(match_data, match_data_key(hosted.match),
                              EncodeMatch(hosted.match), TWO_HOURS)
                   ELSE match_data
              /\ next_id' = next_id + 1
              /\ formed' = Append(formed, [match |-> hosted.match,
                                           entry |-> EncodePlayer(player),
                                           tick |-> ticks,
                                           stored |-> ok])
              /\ seated' = seated \cup {hosted.match.players[i].player_id :
                                         i \in 1..Len(hosted.match.players)}
              /\ w' = NextHost([w EXCEPT !.result =
                                   IF ok THEN "Ok(true)" ELSE "Ok(false)"],
                               open_matches')
  /\ UNCHANGED <<probe, promoted, records, queue_player, queue_create_match, closed_matches,
                 regions_key, calls, now, ticks, started, ttl_expired>>

\* remove_matched_players: one conn.zrem(key, player); an error is logged
\* and the loop goes on
RemoveMatchedPlayers(ok) ==
  /\ w.pc = "evict"
  /\ queue_player' =
       IF ok
       THEN ZRem(queue_player, Head(w.evict).key, Head(w.evict).member)
       ELSE queue_player
  /\ w' = IF Tail(w.evict) = << >>
          THEN [w EXCEPT !.pc = "promote", !.evict = << >>, !.index = 0,
                         !.kept = << >>]
          ELSE [w EXCEPT !.evict = Tail(w.evict)]
  /\ UNCHANGED <<probe, promoted, records, queue_create_match, match_data, closed_matches,
                 regions_key, open_matches, calls, now, next_id, ticks,
                 started, formed, seated, ttl_expired>>

PromoteNextShrinks(ww, kept) ==
  IF ww.index + 1 = Len(open_matches)
  THEN /\ w' = [ww EXCEPT !.pc = "start_zrange", !.index = 0, !.kept = << >>]
       /\ open_matches' =
            [i \in 1..Len(kept) |->
               IF Len(kept[i].players) > 1
               THEN [kept[i] EXCEPT !.players = Tail(kept[i].players)]
               ELSE kept[i]]
  ELSE /\ w' = [ww EXCEPT !.index = ww.index + 1, !.kept = kept]
       /\ UNCHANGED open_matches

PromoteNextKeepsAll(ww, kept) ==
  IF ww.index + 1 = Len(open_matches)
  THEN /\ w' = [ww EXCEPT !.pc = "start_zrange", !.index = 0, !.kept = << >>]
       /\ UNCHANGED open_matches
  ELSE /\ w' = [ww EXCEPT !.index = ww.index + 1, !.kept = kept]
       /\ UNCHANGED open_matches

\* the promotion loop has handled open_matches[index + 1]; after the last
\* match hosted_matches stores the kept matches and returns
PromoteNext(ww, kept) ==
  IF ww.index + 1 = Len(open_matches)
  THEN /\ w' = [ww EXCEPT !.pc = "start_zrange", !.index = 0, !.kept = << >>]
       /\ open_matches' = kept
  ELSE /\ w' = [ww EXCEPT !.index = ww.index + 1, !.kept = kept]
       /\ UNCHANGED open_matches

\* hosted_matches, promotion loop: a full match has its key deleted, any
\* other match is kept; when conn.del answers Err the error is logged and the
\* match is neither inserted into matches:closed nor kept
HostedMatchesPromote(ok) ==
  /\ w.pc = "promote"
  /\ LET a_match == open_matches[w.index + 1]
     IN  IF Len(a_match.players) >= FULL_MATCH
         THEN IF ok
              THEN /\ match_data' = DelKey(match_data, match_data_key(a_match))
                   /\ w' = [w EXCEPT !.pc = "promote_zadd"]
                   /\ UNCHANGED open_matches
              ELSE /\ PromoteNext(w, w.kept)
                   /\ UNCHANGED match_data
         ELSE /\ PromoteNext(w, Append(w.kept, a_match))
              /\ UNCHANGED match_data
  /\ UNCHANGED <<probe, promoted, records, queue_player, queue_create_match, closed_matches,
                 regions_key, calls, now, next_id, ticks, started, formed,
                 seated, ttl_expired>>

\* hosted_matches, promotion loop: conn.zadd(CLOSED_MATCHES, encode, index);
\* an error leaves hosted_matches through `?`, before open_matches is stored
HostedMatchesZaddClosed(ok) ==
  /\ w.pc = "promote_zadd"
  /\ IF ok
     THEN /\ closed_matches' = ZAdd(closed_matches, CLOSED_MATCHES,
                                    EncodeMatch(open_matches[w.index + 1]),
                                    w.index)
          /\ promoted' = promoted \cup {open_matches[w.index + 1]}
          /\ PromoteNext([w EXCEPT !.pc = "promote"], w.kept)
     ELSE /\ w' = Panicked(w)
          /\ UNCHANGED <<closed_matches, promoted, open_matches>>
  /\ UNCHANGED <<probe, records, queue_player, queue_create_match, match_data,
                 regions_key, calls, now, next_id, ticks, started, formed,
                 seated, ttl_expired>>

EndOfRunCountLost(ww) == IdleWorker

\* run() has returned: the worker waits for the next interval; count keeps
\* what start_matches returned
EndOfRun(ww) == [IdleWorker EXCEPT !.count = ww.count]

\* start_matches: redis.zrange(CLOSED_MATCHES, 0, -1) and the filter_map that
\* keeps the entries that decode; on an error start_matches answers Ok(0)
StartMatchesZRange(ok) ==
  /\ w.pc = "start_zrange"
  /\ LET encoded_matchs ==
           IF ok
           THEN SelectSeq(ZRange(closed_matches, CLOSED_MATCHES),
                          IsMatchEncoding)
           ELSE << >>
     IN  IF encoded_matchs = << >>
         THEN /\ w' = EndOfRun([w EXCEPT !.count = 0])
              /\ ticks' = ticks + 1
         ELSE /\ w' = [w EXCEPT !.pc = "start_zrem", !.closed = encoded_matchs,
                                !.count = 0]
              /\ UNCHANGED ticks
  /\ UNCHANGED <<probe, promoted, records, queue_player, queue_create_match, match_data,
                 closed_matches, regions_key, open_matches, calls, now,
                 next_id, started, formed, seated, ttl_expired>>

\* start_matches: redis.zrem(CLOSED_MATCHES, encoded).unwrap()
StartMatchesZrem(ok) ==
  /\ w.pc = "start_zrem"
  /\ IF ok
     THEN /\ closed_matches' = ZRem(closed_matches, CLOSED_MATCHES,
                                    Head(w.closed))
          /\ w' = [w EXCEPT !.pc = "start_notify"]
     ELSE /\ w' = Panicked(w)
          /\ UNCHANGED closed_matches
  /\ UNCHANGED <<probe, promoted, records, queue_player, queue_create_match, match_data,
                 regions_key, open_matches, calls, now, next_id, ticks,
                 started, formed, seated, ttl_expired>>

\* start_matches: the start-match notification and the count
StartMatchesNotify ==
  /\ w.pc = "start_notify"
  /\ started' = Append(started, DecodeMatch(Head(w.closed)))
  /\ IF Tail(w.closed) = << >>
     THEN /\ w' = EndOfRun([w EXCEPT !.count = w.count + 1])
          /\ ticks' = ticks + 1
     ELSE /\ w' = [w EXCEPT !.pc = "start_zrem", !.closed = Tail(w.closed),
                            !.count = w.count + 1]
          /\ UNCHANGED ticks
  /\ UNCHANGED <<probe, promoted, records, queue_player, queue_create_match, match_data,
                 closed_matches, regions_key, open_matches, calls, now,
                 next_id, formed, seated, ttl_expired>>

\* ------------------------------------------------------------------------
\* The service: JoinQueue calls, the worker, the operator and the store
\* ------------------------------------------------------------------------
Next ==
  \/ \E regions \in RegionLists : set_regions(regions)
  \/ AdvanceTime
  \/ \E id \in Uuids : ExpirePlayer(id)
  \/ \E c \in CallIds, player \in Players, skillrating \in SkillRatings :
       JoinQueueBegin(c, player, Authenticated(player), Rated(skillrating))
  \/ \E c \in CallIds : JoinQueueSetEx(c, TRUE)
  \/ \E c \in CallIds : JoinQueueZaddPlayer(c, TRUE)
  \/ \E c \in CallIds : JoinQueueZaddCreate(c, TRUE)
  \/ HostedMatchesGetRegions(TRUE)
  \/ HostedMatchesZRange(TRUE)
  \/ CreateMatchGetFriend(TRUE)
  \/ CreateMatchForm(TRUE)
  \/ RemoveMatchedPlayers(TRUE)
  \/ HostedMatchesPromote(TRUE)
  \/ HostedMatchesZaddClosed(TRUE)
  \/ StartMatchesZRange(TRUE)
  \/ StartMatchesZrem(TRUE)
  \/ StartMatchesNotify

Spec == Init /\ [][Next]_vars

\* ------------------------------------------------------------------------
\* The ingress alone: JoinQueue calls with any caller identity, malformed
\* ids, a skill oracle that can fail and a store that can answer Err to
\* every call of the handler
\* ------------------------------------------------------------------------
\* the bodies: p1 in canonical and in upper-case spelling, and a text that is
\* no UUID
IngressPlayers ==
  [player_id : {"p1", "P1", "not-a-uuid"}, region : {"CAN"}, ping : {20},
   difficulty : {0}, join_mode : {"CreateRoom", "JoinRoom"}, party_mode : {0},
   party_member_id : {<<"p2">>}]

\* the UserId extension of a request: none, or the user_id of the token
UserIds ==
  {NoUserId} \cup [player_id : {"p1", "P1", "p2"}, present : {TRUE}]

\* the answers of get_skill_rating
SkillResults == {Rated(r) : r \in SkillRatings} \cup {NotRated}

NextIngress ==
  \/ AdvanceTime
  \/ \E id \in Uuids : ExpirePlayer(id)
  \/ \E c \in CallIds, player \in IngressPlayers, user_id \in UserIds,
        skill_result \in SkillResults :
       JoinQueueBegin(c, player, user_id, skill_result)
  \/ \E c \in CallIds, ok \in BOOLEAN : JoinQueueSetEx(c, ok)
  \/ \E c \in CallIds, ok \in BOOLEAN : JoinQueueZaddPlayer(c, ok)
  \/ \E c \in CallIds, ok \in BOOLEAN : JoinQueueZaddCreate(c, ok)

SpecIngress == Init /\ [][NextIngress]_vars

\* ------------------------------------------------------------------------
\* Match::is_player_fit called directly, as the tests of can_match.rs call
\* it: a match of 1 to 4 players in CAN and a candidate
\* ------------------------------------------------------------------------
\* the ping and the rating of the first player of the match; the others have
\* ping 20 and rating 25 (demo_player)
FitMatchPings == {20, 100, 130}
FitMatchRatings == {25, 50}
\* the ping and the rating of the candidate
FitPings ==
  {0, 49, 50, 99, 100, 101, 124, 125, 126, 149, 150, 151, 201, 299, 300, 301}
FitRatings == {1, 25, 51, 5000}
\* the seconds the candidate has waited when is_player_fit reads the clock
FitAges ==
  {-30, 0, 10, 59, 60, 61, 119, 120, 121, 179, 180, 239, 240, 241, 300}

\* tests::demo_player
demo_player(id, join_mode, ping, rating, region, join_time) ==
  [player_id |-> id,
   skillrating |-> [rating |-> rating, loadout_modifier |-> 1, uncertainty |-> 8],
   region |-> region, ping |-> ping, difficulty |-> 0, join_mode |-> join_mode,
   party_mode |-> 1, party_ids |-> << >>, join_time |-> join_time]

\* a match in CAN of n players
FitMatch(n, ping, rating) ==
  [id |-> 1, host_id |-> "p1", region |-> "CAN",
   players |-> [i \in 1..n |->
                  IF i = 1
                  THEN demo_player("p1", "CreateRoom", ping, rating, "CAN", 0)
                  ELSE demo_player("p2", "JoinRoom", 20, 25, "CAN", 0)]]

InitFit ==
  /\ records = [id \in Uuids |-> Nil]
  /\ queue_player = {}
  /\ queue_create_match = {}
  /\ match_data = {}
  /\ closed_matches = {}
  /\ regions_key = [value |-> Nil, present |-> FALSE]
  /\ open_matches = << >>
  /\ w = IdleWorker
  /\ calls = [c \in CallIds |-> IdleCall]
  /\ now = 1000
  /\ next_id = 1
  /\ ticks = 0
  /\ started = << >>
  /\ formed = << >>
  /\ promoted = {}
  /\ seated = {}
  /\ ttl_expired = 0
  /\ \E n \in 1..MAX_PLAYERS, match_ping \in FitMatchPings,
        match_rating \in FitMatchRatings, ping \in FitPings,
        rating \in FitRatings, join_mode \in JoinModes, region \in Regions,
        age \in FitAges :
       probe = [fn |-> "is_player_fit",
                self |-> FitMatch(n, match_ping, match_rating),
                player |-> demo_player("p3", join_mode, ping, rating, region,
                                       1000 - age),
                called |-> FALSE,
                result |-> [fit |-> FALSE, deviation |-> "Worst"]]

\* a_match.is_player_fit(player)
CallIsPlayerFit ==
  /\ probe.fn = "is_player_fit"
  /\ ~probe.called
  /\ probe' = [probe EXCEPT !.called = TRUE,
                            !.result = is_player_fit(probe.self, probe.player,
                                                     now)]
  /\ UNCHANGED <<records, queue_player, queue_create_match, match_data,
                 closed_matches, regions_key, open_matches, w, calls, now,
                 next_id, ticks, started, formed, promoted, seated,
                 ttl_expired>>

NextFit == CallIsPlayerFit

SpecFit == InitFit /\ [][NextFit]_vars

\* ------------------------------------------------------------------------
\* Match::host called directly, as the tests of can_match.rs call it: a
\* player of any join mode and a party of 0 to 5 players
\* ------------------------------------------------------------------------
\* the largest party the calls are made with
MaxParty == 5

\* the id of the i-th party member: p2, p3, p4, p5 and again
PartyId(i) == <<"p2", "p3", "p4", "p5">>[((i - 1) % 4) + 1]

InitHost ==
  /\ records = [id \in Uuids |-> Nil]
  /\ queue_player = {}
  /\ queue_create_match = {}
  /\ match_data = {}
  /\ closed_matches = {}
  /\ regions_key = [value |-> Nil, present |-> FALSE]
  /\ open_matches = << >>
  /\ w = IdleWorker
  /\ calls = [c \in CallIds |-> IdleCall]
  /\ now = 0
  /\ next_id = 1
  /\ ticks = 0
  /\ started = << >>
  /\ formed = << >>
  /\ promoted = {}
  /\ seated = {}
  /\ ttl_expired = 0
  /\ \E id \in {"p1", "p3"}, join_mode \in JoinModes, region \in Regions,
        n \in 0..MaxParty, party_mode \in JoinModes,
        party_region \in Regions :
       probe = [fn |-> "host",
                player |-> demo_player(id, join_mode, 20, 25, region, 0),
                party |-> [i \in 1..n |->
                             demo_player(PartyId(i), party_mode, 20, 25,
                                         party_region, 0)],
                called |-> FALSE,
                result |-> [err |-> "none"]]

\* Match::host(&player, &party)
CallHost ==
  /\ probe.fn = "host"
  /\ ~probe.called
  /\ probe' = [probe EXCEPT !.called = TRUE,
                            !.result = Host(probe.player, probe.party, next_id)]
  /\ UNCHANGED <<records, queue_player, queue_create_match, match_data,
                 closed_matches, regions_key, open_matches, w, calls, now,
                 next_id, ticks, started, formed, promoted, seated,
                 ttl_expired>>

NextHostCall == CallHost

SpecHost == InitHost /\ [][NextHostCall]_vars

\* ------------------------------------------------------------------------
\* rpc/server/auth.rs: the interceptor check_auth, called directly on a
\* request at a Unix time
\* ------------------------------------------------------------------------
\* `x as u64` of an i64: x for x >= 0 and x + 2^64 otherwise.  2^64 is beyond
\* the integers of the model checker, so the u64 is the pair that stands for
\* value + 2^64 * (IF wrapped THEN 1 ELSE 0), for values of 32 bits
as_u64(x) == [value |-> x, wrapped |-> x < 0]

\* a > b on two u64
GreaterU64(a, b) ==
  IF a.wrapped = b.wrapped THEN a.value > b.value ELSE a.wrapped

\* the authorization metadata of a request: none, a value that is no visible
\* ASCII text, or a token signed with some key over some payload
NoAuthorization == [kind |-> "none"]
OpaqueAuthorization == [kind |-> "opaque"]
AuthTokens ==
  [key : {"ENCRYPTION_KEY", "not-an-encryption-key"}, user_id : {"p1", "p2"},
   kind : {"token"}, payload : {"SessionClaims", "malformed"},
   expires_at : {-1000, -1, 0, 99, 100, 101, 1000, 2000}]

\* the seconds since UNIX_EPOCH at which check_auth reads the clock
AuthClock == {0, 100, 1000}

\* VerifyWithKey::verify_with_key(token, &key) is Ok: the signature is the
\* one of ENCRYPTION_KEY and the payload deserialises as SessionClaims
Verifies(token) ==
  token.key = "ENCRYPTION_KEY" /\ token.payload = "SessionClaims"

\* check_auth(req) at the Unix time secs: the status it answers, whether the
\* request is handed on to the service and the UserId extension it then has
check_auth(authorization, secs) ==
  IF authorization.kind = "none"
  THEN [status |-> "Unauthenticated", user_id |-> NoUserId,
        message |-> "No valid auth token", forwarded |-> FALSE]
  ELSE IF authorization.kind = "opaque" \/ ~Verifies(authorization)
  THEN [status |-> "Internal", user_id |-> NoUserId,
        message |-> "Failed to verify token", forwarded |-> FALSE]
  ELSE IF GreaterU64(as_u64(secs), as_u64(authorization.expires_at))
  THEN [status |-> "Unauthenticated", user_id |-> NoUserId,
        message |-> "please refresh session token", forwarded |-> FALSE]
  ELSE [status |-> "Ok",
        user_id |-> [player_id |-> authorization.user_id, present |-> TRUE],
        message |-> "", forwarded |-> TRUE]

InitAuth ==
  /\ records = [id \in Uuids |-> Nil]
  /\ queue_player = {}
  /\ queue_create_match = {}
  /\ match_data = {}
  /\ closed_matches = {}
  /\ regions_key = [value |-> Nil, present |-> FALSE]
  /\ open_matches = << >>
  /\ w = IdleWorker
  /\ calls = [c \in CallIds |-> IdleCall]
  /\ now = 0
  /\ next_id = 1
  /\ ticks = 0
  /\ started = << >>
  /\ formed = << >>
  /\ promoted = {}
  /\ seated = {}
  /\ ttl_expired = 0
  /\ \E authorization \in {NoAuthorization, OpaqueAuthorization} \cup AuthTokens,
        secs \in AuthClock :
       probe = [fn |-> "check_auth",
                result |-> [status |-> "", user_id |-> NoUserId,
                            message |-> "", forwarded |-> FALSE],
                called |-> FALSE,
                authorization |-> authorization,
                secs |-> secs]

\* check_auth(req)
CallCheckAuth ==
  /\ probe.fn = "check_auth"
  /\ ~probe.called
  /\ probe' = [probe EXCEPT !.called = TRUE,
                            !.result = check_auth(probe.authorization,
                                                  probe.secs)]
  /\ UNCHANGED <<records, queue_player, queue_create_match, match_data,
                 closed_matches, regions_key, open_matches, w, calls, now,
                 next_id, ticks, started, formed, promoted, seated,
                 ttl_expired>>

NextAuth == CallCheckAuth

SpecAuth == InitAuth /\ [][NextAuth]_vars

\* ------------------------------------------------------------------------
\* The scenario of tests::manage_hosted_matches_test: a host p1 with the
\* party p2, p3, p4 and an unrelated player p5, each queued once in CAN, p1
\* in the create-match queue, and one call of hosted_matches
\* ------------------------------------------------------------------------
ScenarioParties ==
  {<<"p2", "p3", "p4">>, <<"p2", "p4", "p3">>, <<"p3", "p2", "p4">>,
   <<"p3", "p4", "p2">>, <<"p4", "p2", "p3">>, <<"p4", "p3", "p2">>}

ScenarioRegionLists == {<<"CAN">>, <<"CAN", "US">>, <<"US", "CAN">>}

ScenarioPlayer(id, join_mode, party_ids, join_time) ==
  [player_id |-> id,
   skillrating |-> [rating |-> 25, loadout_modifier |-> 1, uncertainty |-> 8],
   region |-> "CAN", ping |-> 20, difficulty |-> 0, join_mode |-> join_mode,
   party_mode |-> 0, party_ids |-> party_ids, join_time |-> join_time]

InitScenario ==
  \E party \in ScenarioParties, regions \in ScenarioRegionLists,
     mode \in {"JoinRoom", "JoinOrCreateRoom"}, t \in 0..MaxTime :
    LET queued ==
          [id \in Uuids |->
             IF id = "p1" THEN ScenarioPlayer(id, "CreateRoom", party, 0)
             ELSE IF id = "p5" THEN ScenarioPlayer(id, mode, << >>, t)
             ELSE ScenarioPlayer(id, "JoinRoom", << >>, t)]
    IN  /\ records = [id \in Uuids |-> EncodePlayer(queued[id])]
        /\ queue_player =
             {[key |-> player_queue_key(queued[id]),
               member |-> EncodePlayer(queued[id]),
               score |-> queued[id].join_time] : id \in Uuids}
        /\ queue_create_match =
             {[key |-> create_match_queue_key("CAN"),
               member |-> EncodePlayer(queued["p1"]),
               score |-> 0]}
        /\ match_data = {}
        /\ closed_matches = {}
        /\ regions_key = [value |-> EncodeRegions(regions), present |-> TRUE]
        /\ open_matches = << >>
        /\ w = IdleWorker
        /\ calls = [c \in CallIds |-> IdleCall]
        /\ now = t
        /\ next_id = 1
        /\ ticks = 0
        /\ started = << >>
        /\ formed = << >>
        /\ promoted = {}
        /\ seated = {}
        /\ ttl_expired = 0
        /\ probe = NoProbe

\* worker.hosted_matches() alone, as the test calls it
NextScenario ==
  \/ HostedMatchesGetRegions(TRUE)
  \/ HostedMatchesZRange(TRUE)
  \/ CreateMatchGetFriend(TRUE)
  \/ CreateMatchForm(TRUE)
  \/ RemoveMatchedPlayers(TRUE)
  \/ HostedMatchesPromote(TRUE)
  \/ HostedMatchesZaddClosed(TRUE)

SpecScenario == InitScenario /\ [][NextScenario]_vars

\* ------------------------------------------------------------------------
\* start_matches called on a pre-populated matches:closed: up to two
\* 4-player matches formed earlier and, possibly, an entry that is no Match
\* ------------------------------------------------------------------------
\* a closed match of host p1 and a party
ClosedMatch(id, party) ==
  [id |-> id, host_id |-> "p1", region |-> "CAN",
   players |-> [i \in 1..4 |->
                  IF i = 4
                  THEN ScenarioPlayer("p1", "CreateRoom", party, 0)
                  ELSE ScenarioPlayer(party[i], "JoinRoom", << >>, 0)]]

\* the matches that may be in matches:closed, with distinct ids
ClosedMatchPool == {ClosedMatch(id, party) : id \in 1..3, party \in ScenarioParties}

\* bytes that do not decode as a Match
Garbage == <<"garbage">>

InitStart ==
  \E pre \in SUBSET ClosedMatchPool, junk \in BOOLEAN :
    /\ Cardinality(pre) <= 2
    /\ \A m1, m2 \in pre : m1.id = m2.id => m1 = m2
    /\ records = [id \in Uuids |-> Nil]
    /\ queue_player = {}
    /\ queue_create_match = {}
    /\ match_data = {}
    /\ closed_matches =
         {[key |-> CLOSED_MATCHES, member |-> EncodeMatch(m), score |-> 0] :
            m \in pre}
         \cup (IF junk
               THEN {[key |-> CLOSED_MATCHES, member |-> Garbage, score |-> 0]}
               ELSE {})
    /\ regions_key = [value |-> Nil, present |-> FALSE]
    /\ open_matches = << >>
    /\ w = [IdleWorker EXCEPT !.pc = "start_zrange"]
    /\ calls = [c \in CallIds |-> IdleCall]
    /\ now = 0
    /\ next_id = 4
    /\ ticks = 0
    /\ started = << >>
    /\ formed = [k \in 1..Cardinality(pre) |->
                   LET m == CHOOSE x \in pre :
                              Cardinality({y \in pre : y.id < x.id}) = k - 1
                   IN  [match |-> m,
                        entry |-> EncodePlayer(m.players[4]),
                        tick |-> 0,
                        stored |-> TRUE]]
    /\ promoted = pre
    /\ seated = {}
    /\ ttl_expired = 0
    /\ probe = NoProbe

\* worker.start_matches() alone
NextStart ==
  \/ StartMatchesZRange(TRUE)
  \/ StartMatchesZrem(TRUE)
  \/ StartMatchesNotify

SpecStart == InitStart /\ [][NextStart]_vars

\* ------------------------------------------------------------------------
\* The worker alone over a store that can answer Err to every call: a host
\* p1 in CAN whose party names one to four players, some of which have
\* joined (they have a record and a queue entry), and a RegionSet that
\* decodes or not
\* ------------------------------------------------------------------------
\* the party_member_id lists of the host; one names a text that is no UUID
TickParties ==
  {<<"p2">>, <<"p2", "p3">>, <<"p2", "p3", "p4">>,
   <<"p2", "p3", "p4", "p5">>, <<"p2", "not-a-uuid">>}

\* bytes under match:regions that do not decode: a length of 2 and one element
TruncatedRegions == <<2, "CAN">>

\* the values of match:regions
TickRegionValues == {EncodeRegions(<<"CAN">>), TruncatedRegions}

InitTick ==
  \E party \in TickParties, joined \in SUBSET {"p2", "p3", "p4", "p5"},
     regions \in TickRegionValues :
    LET queued ==
          [id \in Uuids |->
             IF id = "p1" THEN ScenarioPlayer(id, "CreateRoom", party, 0)
             ELSE ScenarioPlayer(id, "JoinRoom", << >>, 0)]
    IN  /\ records = [id \in Uuids |->
                        IF id \in joined \cup {"p1"}
                        THEN EncodePlayer(queued[id]) ELSE Nil]
        /\ queue_player =
             {[key |-> player_queue_key(queued[id]),
               member |-> EncodePlayer(queued[id]),
               score |-> 0] : id \in joined \cup {"p1"}}
        /\ queue_create_match =
             {[key |-> create_match_queue_key("CAN"),
               member |-> EncodePlayer(queued["p1"]),
               score |-> 0]}
        /\ match_data = {}
        /\ closed_matches = {}
        /\ regions_key = [value |-> regions, present |-> TRUE]
        /\ open_matches = << >>
        /\ w = IdleWorker
        /\ calls = [c \in CallIds |-> IdleCall]
        /\ now = 0
        /\ next_id = 1
        /\ ticks = 0
        /\ started = << >>
        /\ formed = << >>
        /\ promoted = {}
        /\ seated = {}
        /\ ttl_expired = 0
        /\ probe = NoProbe

\* the runs of the worker; ok is the answer of the store to the call
NextTick ==
  \/ \E ok \in BOOLEAN : HostedMatchesGetRegions(ok)
  \/ \E ok \in BOOLEAN : HostedMatchesZRange(ok)
  \/ \E ok \in BOOLEAN : CreateMatchGetFriend(ok)
  \/ \E ok \in BOOLEAN : CreateMatchForm(ok)
  \/ \E ok \in BOOLEAN : RemoveMatchedPlayers(ok)
  \/ \E ok \in BOOLEAN : HostedMatchesPromote(ok)
  \/ \E ok \in BOOLEAN : HostedMatchesZaddClosed(ok)
  \/ \E ok \in BOOLEAN : StartMatchesZRange(ok)
  \/ \E ok \in BOOLEAN : StartMatchesZrem(ok)
  \/ StartMatchesNotify

SpecTick == InitTick /\ [][NextTick]_vars

\* ------------------------------------------------------------------------
\* The worker over two regions and three hosts: p1 and p3 queued in CAN at
\* their join times, p5 queued in US.  The party of p1 names nobody, p2, p2
\* more than once, p1 itself or a text that is no UUID; the record of p2 is
\* absent, stored, or bytes that do not decode.  The RegionSet and the queues
\* are read without error, every other store call can answer Err.  The run
\* that follows is the last one of the behaviour
\* ------------------------------------------------------------------------
\* the party_member_id lists of p1
QueueParties ==
  {<< >>, <<"p2">>, <<"p2", "p2", "p2">>, <<"p2", "p2", "p2", "p2">>,
   <<"p1">>, <<"not-a-uuid">>}

\* the values of RegionSet
QueueRegionLists == {<<"CAN", "US">>, <<"US", "CAN">>}

\* the join times of the hosts
QueueTimes == {0, 1}

InitQueues ==
  \E party \in QueueParties, friend \in {"none", "stored", "garbage"},
     regions \in QueueRegionLists, t1 \in QueueTimes, t3 \in QueueTimes,
     party3 \in {<< >>, <<"p4">>} :
    LET queued ==
          [id \in Uuids |->
             IF id = "p1" THEN ScenarioPlayer(id, "CreateRoom", party, t1)
             ELSE IF id = "p3" THEN ScenarioPlayer(id, "CreateRoom", party3, t3)
             ELSE IF id = "p5"
                  THEN [ScenarioPlayer(id, "CreateRoom", << >>, 0)
                          EXCEPT !.region = "US"]
             ELSE ScenarioPlayer(id, "JoinRoom", << >>, 0)]
        joined == IF friend = "stored" THEN Uuids ELSE Uuids \ {"p2"}
    IN  /\ records = [id \in Uuids |->
                        IF id \in joined THEN EncodePlayer(queued[id])
                        ELSE IF friend = "garbage" THEN Garbage ELSE Nil]
        /\ queue_player =
             {[key |-> player_queue_key(queued[id]),
               member |-> EncodePlayer(queued[id]),
               score |-> queued[id].join_time] : id \in joined}
        /\ queue_create_match =
             {[key |-> create_match_queue_key(queued[id].region),
               member |-> EncodePlayer(queued[id]),
               score |-> queued[id].join_time] : id \in {"p1", "p3", "p5"}}
        /\ match_data = {}
        /\ closed_matches = {}
        /\ regions_key = [value |-> EncodeRegions(regions), present |-> TRUE]
        /\ open_matches = << >>
        /\ w = IdleWorker
        /\ calls = [c \in CallIds |-> IdleCall]
        /\ now = 1
        /\ next_id = 1
        /\ ticks = MaxTicks - 1
        /\ started = << >>
        /\ formed = << >>
        /\ promoted = {}
        /\ seated = {}
        /\ ttl_expired = 0
        /\ probe = NoProbe

\* the runs of the worker; ok is the answer of the store to the call
NextQueues ==
  \/ HostedMatchesGetRegions(TRUE)
  \/ HostedMatchesZRange(TRUE)
  \/ \E ok \in BOOLEAN : CreateMatchGetFriend(ok)
  \/ \E ok \in BOOLEAN : CreateMatchForm(ok)
  \/ \E ok \in BOOLEAN : RemoveMatchedPlayers(ok)
  \/ \E ok \in BOOLEAN : HostedMatchesPromote(ok)
  \/ \E ok \in BOOLEAN : HostedMatchesZaddClosed(ok)
  \/ \E ok \in BOOLEAN : StartMatchesZRange(ok)
  \/ \E ok \in BOOLEAN : StartMatchesZrem(ok)
  \/ StartMatchesNotify

SpecQueues == InitQueues /\ [][NextQueues]_vars

\* ------------------------------------------------------------------------
\* Properties
\* ------------------------------------------------------------------------
\* the ids of the players of a match
IdsOf(m) == {m.players[i].player_id : i \in 1..Len(m.players)}

\* the matches in open_matches and in matches:closed
OpenMatchSet == {open_matches[i] : i \in 1..Len(open_matches)}
ClosedMatchSet ==
  {DecodeMatch(e.member) :
     e \in {x \in closed_matches : IsMatchEncoding(x.member)}}

\* the entries of the player queues that belong to a player id
QueuedEntries(id) ==
  {e \in queue_player : DecodePlayer(e.member).player_id = id}
CreateEntries(id) ==
  {e \in queue_create_match : DecodePlayer(e.member).player_id = id}

\* C1: no player id is in the players of two matches of open_matches at the
\* same time.
C1_OnePlayerOneOpenMatch ==
  \A i, j \in 1..Len(open_matches) :
    i < j => IdsOf(open_matches[i]) \cap IdsOf(open_matches[j]) = {}

\* C2: the create-match queue is drained: an entry forms at most one match,
\* so the matches formed from an entry are never more than the JoinQueue
\* calls that inserted that entry.
C2_CreateQueueDrained ==
  \A k \in 1..Len(formed) :
    Cardinality({j \in 1..Len(formed) : formed[j].entry = formed[k].entry})
      <= Cardinality({c \in CallIds : calls[c].encoded_player = formed[k].entry})

\* C3: between two runs of the worker, a player that was seated in a match
\* and has not written its record again has no record in the store.
C3_SeatedRecordRemoved ==
  w.pc = "idle" => \A id \in seated : records[id] = Nil

\* C4: every match in open_matches or matches:closed is region-homogeneous:
\* each of its players has the region of the match.
C4_RegionHomogeneous ==
  \A m \in OpenMatchSet \cup ClosedMatchSet :
    \A i \in 1..Len(m.players) : m.players[i].region = m.region

\* C5: every match in open_matches or matches:closed has between 1 and 4
\* players and its host_id is the player_id of its last player.
C5_SizeAndHostLast ==
  \A m \in OpenMatchSet \cup ClosedMatchSet :
    /\ 1 <= Len(m.players)
    /\ Len(m.players) <= 4
    /\ m.host_id = m.players[Len(m.players)].player_id

\* C5 witness: matches with a party are open or closed, and a party of four
\* has been refused.
C5_Witness ==
  /\ \E m \in OpenMatchSet : Len(m.players) = 2
  /\ \E m \in ClosedMatchSet : Len(m.players) = 4

\* C6: at the end of every run of the worker no player of a match in
\* open_matches has an entry in its player queue.
C6_SeatedNotQueued ==
  [][(w.pc # "idle" /\ w'.pc = "idle") =>
       \A i \in 1..Len(open_matches') :
         \A k \in 1..Len(open_matches'[i].players) :
           LET player == open_matches'[i].players[k]
           IN  \A e \in queue_player' :
                 ~(/\ e.key = player_queue_key(player)
                   /\ DecodePlayer(e.member).player_id = player.player_id)]_vars

C8_ReturnedRecordIsOwn ==
  ttl_expired = 0 =>
    \A c \in CallIds : calls[c].pc = "done" => calls[c].same_at_return

\* C8 amended: the same, for the calls during which, between their write of
\* the record and their return, no other JoinQueue call wrote the record of
\* the same player_id and the record did not expire.
C8_UndisturbedRecordIsOwn ==
  \A c \in CallIds :
    calls[c].pc = "done" /\ ~calls[c].disturbed => calls[c].same_at_return

\* C8 witness: a call has returned undisturbed while another call for the
\* same player_id is in flight.
C8_Witness ==
  \E c, d \in CallIds :
    /\ c # d
    /\ calls[c].pc = "done" /\ ~calls[c].disturbed
    /\ calls[d].pc \notin {"idle", "done"}
    /\ calls[d].encoded_player[1] = calls[c].encoded_player[1]

\* the body of the request of a call: the queued player without its join_time
BodyOf(call) == joined_at(DecodePlayer(call.encoded_player), 0)

\* C9: once the JoinQueue calls of a player, all with the same body, have
\* returned, the player has at most one entry in its player queue and at most
\* one in the create-match queue, as after a single call.
C9_RetryIdempotent ==
  \A id \in Uuids :
    LET mine == {c \in CallIds : /\ calls[c].pc # "idle"
                                 /\ calls[c].encoded_player[1] = id}
    IN  (/\ \A c \in mine : calls[c].pc = "done"
         /\ \A c, d \in mine : BodyOf(calls[c]) = BodyOf(calls[d]))
        => /\ Cardinality(QueuedEntries(id)) <= 1
           /\ Cardinality(CreateEntries(id)) <= 1

\* C10: while no record has expired, every entry of a player queue and of a
\* create-match queue belongs to a player id whose record is in the store.
C10_QueuedHasRecord ==
  ttl_expired = 0 =>
    /\ \A e \in queue_player :
         records[DecodePlayer(e.member).player_id] # Nil
    /\ \A e \in queue_create_match :
         records[DecodePlayer(e.member).player_id] # Nil

\* C10 witness: both kinds of queue hold entries while a JoinQueue call is
\* between its store calls and the worker is in a run.
C10_Witness ==
  /\ ttl_expired = 0
  /\ queue_player # {}
  /\ queue_create_match # {}
  /\ w.pc # "idle"
  /\ \E c \in CallIds : calls[c].pc \in {"zadd_player", "zadd_create"}

\* the keys of the store
store ==
  <<records, queue_player, queue_create_match, match_data, closed_matches,
    regions_key>>

\* the request of a call passes the checks join_queue makes before the Redis
\* block: player_id parses, the caller identity is present and is that id,
\* the skill oracle succeeded
Accepted(request) ==
  LET parsed == ParseUuid(request.player_id)
  IN  /\ parsed.ok
      /\ request.user_id.present
      /\ request.user_id.player_id = parsed.id
      /\ request.skill_ok

OwnEntry(call) ==
  [key |-> player_queue_key(DecodePlayer(call.encoded_player)),
   member |-> call.encoded_player,
   score |-> call.time_since]

\* C12: when the insertion into the create-match queue fails for a
\* CreateRoom player, the call returns success ("waiting in queue"); the
\* failing step leaves the record and the player queues as they were, so the
\* record the call wrote (unless another call or the TTL replaced it while
\* the call ran) and its player-queue entry are in the store at the return.
C12_CreateFailureNotSurfaced ==
  /\ [](\A c \in CallIds :
          calls[c].failed = "zadd_create" =>
            /\ calls[c].pc = "done"
            /\ calls[c].status = "Ok"
            /\ DecodePlayer(calls[c].encoded_player).join_mode = "CreateRoom"
            /\ OwnEntry(calls[c]) \in queue_player
            /\ ~calls[c].disturbed => calls[c].same_at_return)
  /\ [][\A c \in CallIds :
          calls[c].pc = "zadd_create" /\ calls'[c].failed = "zadd_create" =>
            UNCHANGED <<records, queue_player>>]_vars

\* C12 witness: a CreateRoom call has returned success after its create-match
\* insertion failed; its record and its player-queue entry are stored and
\* the create-match queue is empty.
C12_Witness ==
  \E c \in CallIds :
    /\ calls[c].failed = "zadd_create"
    /\ calls[c].status = "Ok"
    /\ records["p1"] = calls[c].encoded_player
    /\ OwnEntry(calls[c]) \in queue_player
    /\ queue_create_match = {}

\* is_player_fit has been called and has returned
FitReturned == probe.fn = "is_player_fit" /\ probe.called

\* the seconds the candidate of the call has waited
FitAge == now - probe.player.join_time

\* C13: is_player_fit returns (false, Worst) whenever the candidate's
\* join_mode is CreateRoom, or the match has 4 or more players, or the
\* candidate's region differs from the match's, whatever its ping, skill and
\* waiting time.
C13_HardRejects ==
  (/\ FitReturned
   /\ \/ probe.player.join_mode = "CreateRoom"
      \/ Len(probe.self.players) >= 4
      \/ probe.player.region # probe.self.region)
  => probe.result = [fit |-> FALSE, deviation |-> "Worst"]

\* C13 witness: a candidate of ping 0 that is refused only for its region.
C13_Witness ==
  /\ FitReturned
  /\ probe.player.region # probe.self.region
  /\ probe.player.join_mode = "JoinRoom"
  /\ Len(probe.self.players) = 2
  /\ probe.player.ping = 0
  /\ probe.result = [fit |-> FALSE, deviation |-> "Worst"]

\* C14: for a match of 1 to 3 players and a same-region candidate that is
\* not CreateRoom, is_player_fit returns the result of the decision ladder,
\* first match wins: Excellent below 50, Good below 100, Disadvantage below
\* 150 when avg_ping + 25 > ping, Poor when below 150 and aged more than 1
\* minute or when ping + percent_skill > 150, rejected Disadvantage below 150,
\* Poor for 150..300 aged more than 3 minutes, otherwise rejected Worst;
\* age_minutes is the floor of the age in seconds over 60.
C14_DecisionLadder ==
  (/\ FitReturned
   /\ probe.player.join_mode # "CreateRoom"
   /\ Len(probe.self.players) \in 1..3
   /\ probe.player.region = probe.self.region)
  => LET n == Len(probe.self.players)
         ping == probe.player.ping
         total_ping == SumPing(probe.self.players)
         total_skill == SumSkill(probe.self.players)
         cand_skill == probe.player.skillrating.rating
                         + probe.player.skillrating.loadout_modifier
         age_minutes == FitAge \div 60
         \* avg_ping + 25 > ping, times n
         near_average == total_ping + 25 * n > ping * n
         \* ping + (cand_skill / avg_skill - 1) * 50 > 150, times total_skill
         compensated == ping * total_skill + 50 * (cand_skill * n - total_skill)
                          > 150 * total_skill
         ladder ==
           IF ping < 50 THEN <<TRUE, "Excellent">>
           ELSE IF ping < 100 THEN <<TRUE, "Good">>
           ELSE IF ping < 150 /\ near_average THEN <<TRUE, "Disadvantage">>
           ELSE IF (ping < 150 /\ age_minutes > 1) \/ compensated
                THEN <<TRUE, "Poor">>
           ELSE IF ping < 150 THEN <<FALSE, "Disadvantage">>
           ELSE IF 150 <= ping /\ ping < 300 /\ age_minutes > 3
                THEN <<TRUE, "Poor">>
           ELSE <<FALSE, "Worst">>
     IN  <<probe.result.fit, probe.result.deviation>> = ladder

\* C14 witness: a candidate of low skill and ping 151 is admitted as Poor by
\* the last admitting rung, after more than 3 minutes.
C14_Witness ==
  /\ FitReturned
  /\ Len(probe.self.players) = 3
  /\ probe.player.region = probe.self.region
  /\ probe.player.join_mode = "JoinRoom"
  /\ probe.player.ping = 151
  /\ probe.player.skillrating.rating = 1
  /\ FitAge = 240
  /\ probe.result = [fit |-> TRUE, deviation |-> "Poor"]

\* C15: for a match of three players at ping 20 and skill 25/1, a
\* same-region candidate of the same skill whose ping is 300 or more (301)
\* is rejected with (false, Worst).
C15_HighPingRejected ==
  (/\ FitReturned
   /\ Len(probe.self.players) = 3
   /\ \A i \in 1..3 : /\ probe.self.players[i].ping = 20
                       /\ probe.self.players[i].skillrating.rating = 25
   /\ probe.player.region = probe.self.region
   /\ probe.player.join_mode # "CreateRoom"
   /\ probe.player.skillrating.rating = 25
   /\ probe.player.ping >= 300)
  => probe.result = [fit |-> FALSE, deviation |-> "Worst"]

\* C16: admission is monotone in the candidate's age: a candidate admitted
\* at some age is admitted, by the same match, at every greater age.
C16_MonotoneInAge ==
  (FitReturned /\ probe.result.fit)
  => \A age \in FitAges :
       age > FitAge =>
         is_player_fit(probe.self,
                       [probe.player EXCEPT !.join_time = now - age],
                       now).fit

\* C16 witness: a candidate admitted at its age that the same match refuses
\* at a smaller age.
C16_Witness ==
  /\ FitReturned
  /\ probe.result.fit
  /\ \E age \in FitAges :
       /\ age < FitAge
       /\ ~is_player_fit(probe.self,
                         [probe.player EXCEPT !.join_time = now - age],
                         now).fit

\* C17: the record of an open match under match:<id> is written with a
\* time-to-live of 7200 seconds (two hours).
C17_MatchTtlTwoHours ==
  \A e \in match_data : e.ttl = 7200

\* the matches the session launcher has been notified of
StartedSet == {started[i] : i \in 1..Len(started)}

\* C18: a match is removed from matches:closed only after its start-match
\* notification was issued: every match that was promoted and is no longer
\* in matches:closed has been notified to the session launcher.
C18_RemovedOnlyAfterNotified ==
  \A k \in 1..Len(formed) :
    LET m == formed[k].match
    IN  (/\ Len(m.players) >= FULL_MATCH
         /\ m \notin OpenMatchSet
         /\ m \notin ClosedMatchSet)
        => m \in StartedSet

\* C19: start_matches removes every entry of matches:closed that decodes and
\* returns the number of entries it removed: with n matches pre-populated it
\* issues n notifications, one for each of them, returns n and leaves no
\* match in matches:closed (nothing at all when every entry was a match).
C19_StartCountsRemoved ==
  w.pc = "idle" =>
    /\ w.count = Len(formed)
    /\ Len(started) = Len(formed)
    /\ StartedSet = {formed[k].match : k \in 1..Len(formed)}
    /\ \A e \in closed_matches : e.member = Garbage

\* C19 witness: start_matches has returned 2 for two pre-populated matches
\* and has left matches:closed empty.
C19_Witness ==
  /\ w.pc = "idle"
  /\ w.count = 2
  /\ Len(started) = 2
  /\ closed_matches = {}

\* C20: when hosted_matches finds the RegionSet absent or empty, the run of
\* the worker does nothing: no step of that run changes open_matches or a
\* key of the store.
C20_NoRegionsNoEffect ==
  [][(w.no_regions /\ w' # w) => UNCHANGED <<store, open_matches>>]_vars

\* the matches create_match has pushed to open_matches
FormedSet == {formed[k].match : k \in 1..Len(formed)}

SameId(m, matches) == {o \in matches : o.id = m.id}

\* C22: membership is fixed once a match exists: no step takes a player from
\* a match of open_matches, so that a match of open_matches has every player
\* it was formed with, and a match that has been inserted into matches:closed
\* has, wherever it is afterwards, no player it was not inserted with.
C22_MembershipFixed ==
  /\ [](/\ \A m \in OpenMatchSet : \A f \in SameId(m, FormedSet) :
             /\ IdsOf(f) \subseteq IdsOf(m)
             /\ Len(f.players) <= Len(m.players)
        /\ \A m \in promoted :
             \A o \in SameId(m, OpenMatchSet \cup ClosedMatchSet \cup StartedSet) :
               /\ IdsOf(o) \subseteq IdsOf(m)
               /\ Len(o.players) <= Len(m.players))
  /\ [][\A m \in OpenMatchSet : \A o \in SameId(m, OpenMatchSet') :
          /\ IdsOf(m) \subseteq IdsOf(o)
          /\ Len(m.players) <= Len(o.players)]_vars

\* C22 witness: a match formed in an earlier run is in open_matches during
\* the next run, and a match of 4 players is in matches:closed.
C22_Witness ==
  /\ \E k \in 1..Len(formed) :
       /\ formed[k].tick < ticks
       /\ formed[k].match \in OpenMatchSet
  /\ \E m \in promoted : m \in ClosedMatchSet /\ Len(m.players) = 4

\* check_auth has been called and has returned
AuthReturned == probe.fn = "check_auth" /\ probe.called

\* the token of the request is signed with the key of the service over a
\* well-formed payload
CorrectlySigned ==
  /\ probe.authorization.kind = "token"
  /\ probe.authorization.key = "ENCRYPTION_KEY"
  /\ probe.authorization.payload = "SessionClaims"

\* C23: check_auth answers Unauthenticated to every request whose
\* authorization token is missing, has an invalid signature or a malformed
\* payload, or is expired (with an expiry time that is not negative), and
\* hands no such request on to join_queue.
C23_AuthRejectsUnauthenticated ==
  (/\ AuthReturned
   /\ \/ probe.authorization.kind = "none"
      \/ /\ probe.authorization.kind = "token"
         /\ \/ probe.authorization.key # "ENCRYPTION_KEY"
            \/ probe.authorization.payload # "SessionClaims"
            \/ /\ 0 <= probe.authorization.expires_at
               /\ probe.authorization.expires_at < probe.secs)
  => /\ probe.result.status = "Unauthenticated"
     /\ ~probe.result.forwarded

\* C24: for a correctly signed token check_auth fails whenever expires_at is
\* earlier than the current Unix time, negative values of expires_at
\* included, and succeeds whenever now is not greater than expires_at.
C24_ExpiryEveryI64 ==
  (AuthReturned /\ CorrectlySigned)
  => IF probe.authorization.expires_at < probe.secs
     THEN probe.result.status # "Ok" /\ ~probe.result.forwarded
     ELSE probe.result.status = "Ok" /\ probe.result.forwarded

\* the party ids of a queued host that are UUIDs with a record in the store,
\* in party_ids order
PartyWithRecord(host) ==
  SelectSeq(host.party_ids,
            LAMBDA s : ParseUuid(s).ok /\ records[ParseUuid(s).id] # Nil)

\* the matches whose record is under a match:<id> key
MatchDataSet == {DecodeMatch(e.value) : e \in match_data}

\* C25: a host whose party_ids name 4 players that all have a record is not
\* matched: no match hosted by it is formed, is in open_matches or has a
\* match:<id> key, and when create_match has loaded the 4 party members it
\* fails with OversizedParty and leaves open_matches and the match:<id> keys
\* unchanged.
C25_OversizedPartyNotMatched ==
  /\ [](\A e \in queue_create_match :
          LET host == DecodePlayer(e.member)
          IN  (Len(host.party_ids) = 4 /\ Len(PartyWithRecord(host)) = 4)
              => \A m \in FormedSet \cup OpenMatchSet \cup MatchDataSet :
                   m.host_id # host.player_id)
  /\ [][(w.pc = "create" /\ Len(w.party) = 4 /\ w.friends = << >>)
          => /\ w'.result = "OversidedParty"
             /\ UNCHANGED <<open_matches, match_data>>]_vars

\* C25 witness: hosted_matches has loaded the 4 party members of p1 and
\* create_match has failed with OversizedParty; nothing is open or stored.
C25_Witness ==
  /\ w.result = "OversidedParty"
  /\ Len(PartyWithRecord(DecodePlayer(records["p1"]))) = 4
  /\ w.pc = "start_zrange"
  /\ open_matches = << >>
  /\ match_data = {}

\* C26: a party member without a record is skipped without error: the
\* players of every match formed for a host are the party members that have
\* a record, in party_ids order, followed by the host, and a match formed
\* with fewer than 4 players is in open_matches from then on and is never
\* inserted into matches:closed.
C26_MissingFriendSkipped ==
  /\ \A k \in 1..Len(formed) :
       LET host == DecodePlayer(formed[k].entry)
           members == PartyWithRecord(host)
       IN  formed[k].match.players =
             [i \in 1..Len(members) |-> DecodePlayer(records[members[i]])]
               \o <<host>>
  /\ \A m \in FormedSet :
       Len(m.players) < 4 =>
         /\ m \in OpenMatchSet
         /\ m \notin promoted \cup ClosedMatchSet \cup StartedSet

\* C26 witness: p1 named p2 and p3, only p2 has a record; after the run the
\* match of p2 and p1 is in open_matches and matches:closed is empty.
C26_Witness ==
  /\ w.pc = "idle"
  /\ ticks = 1
  /\ records["p3"] = Nil
  /\ \E m \in OpenMatchSet :
       /\ Len(m.players) = 2
       /\ m.players[1].player_id = "p2"
       /\ m.players[2].player_id = "p1"
       /\ m.players[2].party_ids = <<"p2", "p3">>
  /\ closed_matches = {}

\* C27: a player who joins with join_mode = JoinRoom, with or without
\* party_ids, is never inserted into a create-match queue, and no match is
\* ever formed or stored with that player as host.
C27_JoinRoomNeverHosts ==
  /\ \A e \in queue_create_match :
       DecodePlayer(e.member).join_mode # "JoinRoom"
  /\ \A c \in CallIds :
       (/\ calls[c].pc # "idle"
        /\ calls[c].encoded_player # Nil
        /\ DecodePlayer(calls[c].encoded_player).join_mode = "JoinRoom")
       => /\ \A e \in queue_create_match : e.member # calls[c].encoded_player
          /\ \A m \in FormedSet \cup OpenMatchSet \cup MatchDataSet :
               /\ m.host_id # DecodePlayer(calls[c].encoded_player).player_id
               /\ m.players[Len(m.players)]
                    # DecodePlayer(calls[c].encoded_player)

\* C27 witness: p2 has joined with JoinRoom naming p1 as its party and is in
\* its player queue; a run of the worker over the region of p2 has ended and
\* no match:<id> key exists.
C27_Witness ==
  /\ \E c \in CallIds :
       /\ calls[c].pc = "done"
       /\ calls[c].status = "Ok"
       /\ DecodePlayer(calls[c].encoded_player).join_mode = "JoinRoom"
       /\ DecodePlayer(calls[c].encoded_player).party_ids = <<"p1">>
       /\ OwnEntry(calls[c]) \in queue_player
  /\ regions_key.present
  /\ DecodeRegions(regions_key.value) = <<"CAN", "US">>
  /\ ticks >= 1
  /\ w.pc = "idle"
  /\ match_data = {}

\* Match::host has been called and has returned
HostReturned == probe.fn = "host" /\ probe.called

\* C28: Match::host fails with JoinOnlyMode exactly when the host's
\* join_mode is JoinRoom, otherwise with OversizedParty exactly when the
\* party and the host are more than 4, and otherwise returns a match whose
\* players are the party followed by the host, whose host_id is the id of
\* the host and whose region is the region of the host.
C28_HostBuilder ==
  HostReturned =>
    LET player == probe.player
        party == probe.party
        hosted == probe.result
    IN  /\ hosted.err = "JoinOnlyMode" <=> player.join_mode = "JoinRoom"
        /\ hosted.err = "OversidedParty" <=>
             (player.join_mode # "JoinRoom" /\ Len(party) + 1 > 4)
        /\ hosted.err \in {"JoinOnlyMode", "OversidedParty", ""}
        /\ hosted.err = "" =>
             /\ Len(hosted.match.players) = Len(party) + 1
             /\ \A i \in 1..Len(party) : hosted.match.players[i] = party[i]
             /\ hosted.match.players[Len(party) + 1] = player
             /\ hosted.match.host_id = player.player_id
             /\ hosted.match.region = player.region

\* C28 witness: a JoinOrCreateRoom player with an empty party hosts a match
\* of one player.
C28_Witness ==
  /\ HostReturned
  /\ probe.player.join_mode = "JoinOrCreateRoom"
  /\ probe.party = << >>
  /\ probe.result.err = ""
  /\ probe.result.match.players = <<probe.player>>

\* C29: a fatal error of a run (the RegionSet cannot be loaded or decoded, or
\* another store call of the run fails) does not stop the worker: the task
\* of the worker loop is never ended, it is in a run or waits for the next.
C29_WorkerSurvivesFatalError ==
  w.pc # "panicked"

\* the positions of the worker in Phase 2 (eviction), Phase 3 (promotion:
\* DEL match:<id>, ZADD matches:closed) and Phase 4 (matches:closed)
Phases2To4 ==
  {"evict", "promote", "promote_zadd", "start_zrange", "start_zrem",
   "start_notify"}

\* C30: a store error in Phase 2, 3 or 4 is only logged: no step of these
\* phases ends the run with an error, the run goes on to the end of its
\* phases.
C30_LatePhaseErrorsLogged ==
  [][w.pc \in Phases2To4 => w'.pc \in Phases2To4 \cup {"idle"}]_vars

\* C31: a match whose write under match:<id> failed while create_match
\* formed it is not in open_matches afterwards, and is never inserted into
\* matches:closed nor notified to the session launcher.
C31_FailedWriteNotOpen ==
  \A k \in 1..Len(formed) :
    ~formed[k].stored =>
      formed[k].match \notin OpenMatchSet \cup promoted \cup StartedSet

\* the positions of the worker after hosted_matches has returned
AfterHostedMatches == {"start_zrange", "start_zrem", "start_notify", "idle"}

\* C32: in Phase 3 a match of 4 or more players whose match:<id> deletion
\* fails is not inserted into matches:closed and is kept in open_matches for
\* the next tick: the failing step leaves matches:closed unchanged, and once
\* hosted_matches has returned every full match that was formed is in
\* open_matches unless it has been inserted into matches:closed.
C32_DeleteFailureKeepsMatch ==
  /\ [](w.pc \in AfterHostedMatches =>
          \A m \in FormedSet :
            Len(m.players) >= FULL_MATCH =>
              m \in OpenMatchSet \/ m \in promoted)
  /\ [][(/\ w.pc = "promote"
          /\ Len(open_matches[w.index + 1].players) >= FULL_MATCH
          /\ w'.pc # "promote_zadd")
        => UNCHANGED closed_matches]_vars

\* the errors create_match answers; JoinOnlyMode is the error of Match::host
\* for a host that create_match has already turned away with Ok(false)
CreateMatchErrors ==
  {"InvalidFriendId", "Redis", "BitcodeDeser", "JoinOnlyMode", "OversidedParty"}

\* the player ids of the entries of the create-match queues of a list of
\* regions, in the order hosted_matches reads them
RECURSIVE HostsInOrder(_)
HostsInOrder(regions) ==
  IF regions = << >> THEN << >>
  ELSE LET entries == SelectSeq(ZRange(queue_create_match,
                                       create_match_queue_key(Head(regions))),
                                IsPlayerEncoding)
       IN  [i \in 1..Len(entries) |-> DecodePlayer(entries[i]).player_id]
             \o HostsInOrder(Tail(regions))

\* the hosts create_match has been called for in the current run
Processed == [i \in 1..Len(w.outcomes) |-> w.outcomes[i][1]]

\* the positions of the worker in a run after the loop over the regions
AfterPhase1 ==
  {"evict", "promote", "promote_zadd", "start_zrange", "start_zrem",
   "start_notify"}

\* C33: a failure while forming a match for one host in Phase 1 (malformed
\* friend id, failed lookup or decode of a friend record, JoinOnlyMode,
\* OversizedParty) adds no match for that host to open_matches and does not
\* end the tick: the failing step leaves open_matches and the store
\* unchanged and goes on with the next host, so that after Phase 1 every
\* host of every region has been processed, and Phases 2 and 3 follow.
C33_HostFailureIsLocal ==
  /\ [](w.pc \in AfterPhase1 =>
          Processed = HostsInOrder(DecodeRegions(regions_key.value)))
  /\ [][(/\ w.pc = "create"
          /\ Len(w'.outcomes) = Len(w.outcomes) + 1
          /\ w'.result \in CreateMatchErrors)
        => /\ UNCHANGED <<open_matches, formed, store>>
           /\ w'.hosts = Tail(w.hosts)
           /\ w'.regions = w.regions
           /\ w'.pc \in {"create", "zrange", "evict", "start_zrange"}]_vars

\* C33 witness: create_match failed for p1, the first host of CAN, and the
\* run went on: the later host p3 and the host p5 of US have their matches
\* in open_matches and the worker is in Phase 3.
C33_Witness ==
  /\ w.pc = "promote"
  /\ Len(w.outcomes) = 3
  /\ w.outcomes[1][1] = "p1"
  /\ w.outcomes[1][2] \in CreateMatchErrors
  /\ \A m \in OpenMatchSet : m.host_id # "p1"
  /\ \E m \in OpenMatchSet : m.host_id = "p3"
  /\ \E m \in OpenMatchSet : m.host_id = "p5"

\* the match of the call is three players at ping 20 and skill 25/1 and the
\* candidate is of the same region and skill and may join
DemoMatchAndPeer ==
  /\ Len(probe.self.players) = 3
  /\ \A i \in 1..3 : /\ probe.self.players[i].ping = 20
                      /\ probe.self.players[i].skillrating.rating = 25
  /\ probe.player.region = probe.self.region
  /\ probe.player.join_mode # "CreateRoom"
  /\ probe.player.skillrating.rating = 25

\* C34: for an open match of three players at ping 20 and skill 25/1 and a
\* same-region candidate of the same skill with ping 101, is_player_fit
\* returns (true, Poor) as soon as the candidate's join_time is more than 60
\* seconds in the past.
C34_AdmittedAfterOneMinute ==
  (/\ FitReturned
   /\ DemoMatchAndPeer
   /\ probe.player.ping = 101
   /\ FitAge > 60)
  => probe.result = [fit |-> TRUE, deviation |-> "Poor"]

\* C35 as stated: the rung that rejects with (false, Disadvantage) is a dead
\* branch, is_player_fit returns (false, Disadvantage) for no open match and
\* candidate.
C35_DisadvantageRejectDead ==
  FitReturned => probe.result # [fit |-> FALSE, deviation |-> "Disadvantage"]

\* C35 amended: the rung is live.  is_player_fit returns (false,
\* Disadvantage) exactly for a candidate that passes the hard rejects, has a
\* ping of 100 to 149 that is at least the average ping of the match plus 25,
\* has waited for less than two full minutes and whose ping plus
\* percent_skill is at most 150.
C35_DisadvantageRejectLive ==
  FitReturned =>
    LET n == Len(probe.self.players)
        ping == probe.player.ping
        total_ping == SumPing(probe.self.players)
        total_skill == SumSkill(probe.self.players)
        cand_skill == probe.player.skillrating.rating
                        + probe.player.skillrating.loadout_modifier
    IN  probe.result = [fit |-> FALSE, deviation |-> "Disadvantage"]
        <=> /\ probe.player.join_mode # "CreateRoom"
            /\ n < 4
            /\ probe.player.region = probe.self.region
            /\ 100 <= ping
            /\ ping < 150
            /\ total_ping + 25 * n <= ping * n
            /\ FitAge < 120
            /\ ping * total_skill + 50 * (cand_skill * n - total_skill)
                 <= 150 * total_skill

\* C35 witness: the case of tests::different_pings_for_match: three players
\* at ping 20, a candidate of the same skill at ping 101 that joined 10
\* seconds ago is rejected with (false, Disadvantage).
C35_Witness ==
  /\ FitReturned
  /\ DemoMatchAndPeer
  /\ probe.player.ping = 101
  /\ FitAge = 10
  /\ probe.result = [fit |-> FALSE, deviation |-> "Disadvantage"]

\* the queued player of the entry a host id has in a create-match queue
QueuedHost(id) ==
  DecodePlayer((CHOOSE e \in queue_create_match :
                  DecodePlayer(e.member).player_id = id).member)

\* C36: within one tick the hosts of a region are processed in
\* non-decreasing join_time order, the regions in the order of the RegionSet
\* list, and the matches are appended to open_matches in that processing
\* order.
C36_FirstComeFirstServed ==
  w.pc # "idle" =>
    LET regions == DecodeRegions(regions_key.value)
        place(region) == CHOOSE i \in 1..Len(regions) : regions[i] = region
        turn(id) == CHOOSE i \in 1..Len(Processed) : Processed[i] = id
    IN  /\ \A i, j \in 1..Len(Processed) :
             i < j =>
               LET first == QueuedHost(Processed[i])
                   second == QueuedHost(Processed[j])
               IN  \/ place(first.region) < place(second.region)
                   \/ /\ first.region = second.region
                      /\ first.join_time <= second.join_time
        /\ \A i, j \in 1..Len(open_matches) :
             i < j => turn(open_matches[i].host_id)
                        < turn(open_matches[j].host_id)

\* C36 witness: p3 joined before p1 and US is listed before CAN: the run
\* has processed p5, p3, p1 and open_matches holds their matches in that
\* order.
C36_Witness ==
  /\ w.pc = "promote"
  /\ DecodeRegions(regions_key.value) = <<"US", "CAN">>
  /\ QueuedHost("p3").join_time < QueuedHost("p1").join_time
  /\ Processed = <<"p5", "p3", "p1">>
  /\ [i \in 1..Len(open_matches) |-> open_matches[i].host_id]
       = <<"p5", "p3", "p1">>

\* C37: the players of every match formed by the worker are pairwise
\* distinct: no player_id occupies two seats of the same match, also when the
\* party_ids of the host repeat an id or contain the id of the host.
C37_SeatsPairwiseDistinct ==
  \A m \in FormedSet :
    \A i, j \in 1..Len(m.players) :
      i # j => m.players[i].player_id # m.players[j].player_id

\* C38: a match formed with fewer than 4 players is never completed: no
\* step of the worker changes the players of a match of open_matches, the
\* match is in open_matches with the players it was formed with in every
\* later state, and no match of its id is inserted into matches:closed or
\* notified to the session launcher.
C38_SmallMatchNeverCompleted ==
  /\ [](\A m \in FormedSet :
          Len(m.players) < FULL_MATCH =>
            /\ m \in OpenMatchSet
            /\ SameId(m, OpenMatchSet) = {m}
            /\ SameId(m, promoted \cup ClosedMatchSet \cup StartedSet) = {})
  /\ [][\A m \in OpenMatchSet :
          \A o \in SameId(m, OpenMatchSet') : o.players = m.players]_vars

\* C38 witness: a match formed with fewer than 4 players in the first run is
\* in open_matches after the second run, while a player who asked to join a
\* room is queued and nothing is closed or started.
C38_Witness ==
  /\ w.pc = "idle"
  /\ ticks = 2
  /\ \E k \in 1..Len(formed) :
       /\ formed[k].tick = 0
       /\ Len(formed[k].match.players) < FULL_MATCH
       /\ formed[k].match \in OpenMatchSet
  /\ \E e \in queue_player : DecodePlayer(e.member).join_mode = "JoinRoom"
  /\ closed_matches = {}
  /\ started = << >>

\* C39: in every state a match is never both stored under match:<id> and
\* present in matches:closed: no match that is or has been in matches:closed
\* has a match:<id> key, and the steps that insert a match into
\* matches:closed write no match:<id> key.
C39_ClosedMatchHasNoKey ==
  /\ [](\A m \in promoted \cup ClosedMatchSet :
          \A e \in match_data : e.key # match_data_key(m))
  /\ [][closed_matches' # closed_matches =>
          match_data' \subseteq match_data]_vars

\* C39 witness: a match of 4 players that was stored under match:<id> when
\* it was formed is in matches:closed and its key is gone.
C39_Witness ==
  \E k \in 1..Len(formed) :
    /\ formed[k].stored
    /\ formed[k].match \in ClosedMatchSet
    /\ Len(formed[k].match.players) = 4
    /\ \A e \in match_data : e.key # match_data_key(formed[k].match)

\* C40: when no store call fails, a match that reaches 4 players is started
\* in the run in which it was formed: at the end of every run matches:closed
\* holds no entry that decodes, every match of 4 players formed so far has
\* been inserted into matches:closed and every match inserted has been
\* notified to the session launcher exactly once.
C40_StartedInSameRun ==
  w.pc = "idle" =>
    /\ ClosedMatchSet = {}
    /\ \A m \in FormedSet : Len(m.players) >= FULL_MATCH => m \in promoted
    /\ \A m \in promoted :
         Cardinality({i \in 1..Len(started) : started[i] = m}) = 1

\* C40 witness: a match of 4 players formed in the second run has been
\* started by the end of that run, and matches:closed is empty.
C40_Witness ==
  /\ w.pc = "idle"
  /\ ticks = 2
  /\ closed_matches = {}
  /\ \E k \in 1..Len(formed) :
       /\ formed[k].tick = 1
       /\ Len(formed[k].match.players) = 4
       /\ formed[k].match \in promoted
       /\ formed[k].match \in StartedSet

====
